---- MODULE Spec2Model ----
(***************************************************************************)
(* A model of dart/collision/CollisionDetector.cpp:                        *)
(*   - the two collision-object managers (unsharable / sharable) with the  *)
(*     shared_ptr reference counts, the weak map and the custom deleters;  *)
(*   - the convenience collide() overloads with the detector's dummy       *)
(*     (scratch) option and result.                                        *)
(***************************************************************************)
EXTENDS Integers, Sequences, FiniteSets, TLC

\* ------------------------------------------------------------------ bounds
MaxObjects == 3      \* collision objects constructed during one run
NumFrames == 2       \* distinct shape-frame handles
NumSlots == 3        \* shared_ptr variables held by callers and groups

ShapeFrames == 1..NumFrames
Slots == 1..NumSlots
NoObject == 0        \* the empty shared_ptr / "no entry" in the map

\* ------------------------------------------------------------------- state
VARIABLES
  ndebug,               \* TRUE: assert() compiled out (NDEBUG build)
  aborted,              \* TRUE once an assert() has failed
  mCollisionObjectManager, \* "none", "unsharable" or "sharable"
  frameOf,              \* frameOf[o]: shape-frame of constructed object o
  useCount,             \* useCount[o]: owners in the shared_ptr control block
  objState,             \* objState[o]: "alive", "destroying" or "deleted"
  events,               \* events[o]: teardown steps executed on o, in order
  mCollisionObjectMap,  \* shape-frame -> object the weak_ptr refers to, or 0
  slot,                 \* slot[s]: object owned through reference s, or 0
  deleting,             \* object whose deleter is running, or 0
  pc,                   \* "idle", "hook" (inside notify), "delete", or
                        \* "destroyed" once the manager is destroyed
  last,                 \* the latest claim (object returned) or release (object)
  mDummyCollisionOption,   \* the scratch option, or NoOption
  mDummyCollisionResult,   \* the scratch result (contacts), or NoResult
  call                  \* the latest convenience collide call and its core call

objVars == <<mCollisionObjectManager, frameOf, useCount, objState, events,
             mCollisionObjectMap, slot, deleting, pc, last>>
queryVars == <<mDummyCollisionOption, mDummyCollisionResult, call>>
vars == <<ndebug, aborted, objVars, queryVars>>

\* An unset unique_ptr, and the record of "no call made yet"
NoOption == [allocated |-> FALSE]
NoResult == [allocated |-> FALSE]
NoCall == [made |-> FALSE]
NoLast == [op |-> "none", obj |-> NoObject]
Claimed(o) == [op |-> "claim", obj |-> o]
Released(o) == [op |-> "release", obj |-> o]

NumObjects == Len(frameOf)
Created == 1..NumObjects

\* weak_ptr::lock() on the entry for h: the object while it has owners, else null
Lock(h) ==
  IF mCollisionObjectMap[h] # NoObject /\ useCount[mCollisionObjectMap[h]] > 0
  THEN mCollisionObjectMap[h] ELSE NoObject

\* createCollisionObject + shared_ptr(raw, deleter): a new object with one owner
Construct(h) ==
  /\ frameOf' = Append(frameOf, h)
  /\ useCount' = Append(useCount, 1)
  /\ objState' = Append(objState, "alive")
  /\ events' = Append(events, <<>>)

\* Mutant: the exclusive manager hands out an object it already made for h.
UnsharableClaimReusing(s, h) ==
  IF \E o \in Created : frameOf[o] = h /\ useCount[o] > 0
  THEN LET o == CHOOSE x \in Created : frameOf[x] = h /\ useCount[x] > 0
       IN /\ useCount' = [useCount EXCEPT ![o] = @ + 1]
          /\ slot' = [slot EXCEPT ![s] = o]
          /\ last' = Claimed(o)
          /\ UNCHANGED <<frameOf, objState, events, mCollisionObjectMap,
                         aborted>>
  ELSE /\ NumObjects < MaxObjects
       /\ Construct(h)
       /\ slot' = [slot EXCEPT ![s] = NumObjects + 1]
       /\ last' = Claimed(NumObjects + 1)
       /\ UNCHANGED <<mCollisionObjectMap, aborted>>

\* ManagerForUnsharableCollisionObjects::claimCollisionObject
UnsharableClaim(s, h) ==
  /\ NumObjects < MaxObjects
  /\ Construct(h)
  /\ slot' = [slot EXCEPT ![s] = NumObjects + 1]
  /\ last' = Claimed(NumObjects + 1)
  /\ UNCHANGED <<mCollisionObjectMap, aborted>>

\* Mutant: the shared manager never looks h up and constructs every time.
SharableClaimNoLookup(s, h) ==
  /\ NumObjects < MaxObjects
  /\ Construct(h)
  /\ mCollisionObjectMap' = [mCollisionObjectMap EXCEPT ![h] = NumObjects + 1]
  /\ slot' = [slot EXCEPT ![s] = NumObjects + 1]
  /\ last' = Claimed(NumObjects + 1)
  /\ UNCHANGED aborted

\* Mutant: a newly constructed object is not entered in the map.
SharableClaimNoInsert(s, h) ==
  IF mCollisionObjectMap[h] # NoObject
  THEN /\ last' = Claimed(Lock(h))
       /\ slot' = [slot EXCEPT ![s] = Lock(h)]
       /\ useCount' = IF Lock(h) = NoObject THEN useCount
                      ELSE [useCount EXCEPT ![Lock(h)] = @ + 1]
       /\ UNCHANGED <<frameOf, objState, events, mCollisionObjectMap,
                      aborted>>
  ELSE /\ NumObjects < MaxObjects
       /\ Construct(h)
       /\ slot' = [slot EXCEPT ![s] = NumObjects + 1]
       /\ last' = Claimed(NumObjects + 1)
       /\ UNCHANGED <<mCollisionObjectMap, aborted>>

\* Mutant: the map holds an owning reference to the object it indexes.
SharableClaimOwningMap(s, h) ==
  IF mCollisionObjectMap[h] # NoObject
  THEN /\ last' = Claimed(mCollisionObjectMap[h])
       /\ slot' = [slot EXCEPT ![s] = mCollisionObjectMap[h]]
       /\ useCount' = [useCount EXCEPT ![mCollisionObjectMap[h]] = @ + 1]
       /\ UNCHANGED <<frameOf, objState, events, mCollisionObjectMap,
                      aborted>>
  ELSE /\ NumObjects < MaxObjects
       /\ frameOf' = Append(frameOf, h)
       /\ useCount' = Append(useCount, 2)
       /\ objState' = Append(objState, "alive")
       /\ events' = Append(events, <<>>)
       /\ mCollisionObjectMap' = [mCollisionObjectMap EXCEPT ![h] = NumObjects + 1]
       /\ slot' = [slot EXCEPT ![s] = NumObjects + 1]
       /\ last' = Claimed(NumObjects + 1)
       /\ UNCHANGED aborted

\* ManagerForSharableCollisionObjects::claimCollisionObject
SharableClaim(s, h) ==
  IF mCollisionObjectMap[h] # NoObject
  THEN IF Lock(h) = NoObject /\ ~ndebug
       THEN \* assert(collObj.lock()) fails
            /\ aborted' = TRUE
            /\ UNCHANGED <<frameOf, useCount, objState, events,
                           mCollisionObjectMap, slot, last>>
       ELSE \* return collObj.lock()
            /\ last' = Claimed(Lock(h))
            /\ slot' = [slot EXCEPT ![s] = Lock(h)]
            /\ useCount' = IF Lock(h) = NoObject THEN useCount
                           ELSE [useCount EXCEPT ![Lock(h)] = @ + 1]
            /\ UNCHANGED <<frameOf, objState, events, mCollisionObjectMap,
                           aborted>>
  ELSE /\ NumObjects < MaxObjects
       /\ Construct(h)
       /\ mCollisionObjectMap' = [mCollisionObjectMap EXCEPT ![h] = NumObjects + 1]
       /\ slot' = [slot EXCEPT ![s] = NumObjects + 1]
       /\ last' = Claimed(NumObjects + 1)
       /\ UNCHANGED aborted

\* Mutant: the manager is reset on every call, not only when there is none.
ClaimCollisionObjectAlwaysResets(s, h) ==
  /\ ~aborted
  /\ pc \in {"idle", "hook"}
  /\ slot[s] = NoObject
  /\ mCollisionObjectManager' = "unsharable"
  /\ UnsharableClaim(s, h)
  /\ UNCHANGED <<ndebug, deleting, pc, queryVars>>

\* CollisionDetector::claimCollisionObject: the result is stored in the empty
\* reference s. Callable between operations and from inside the
\* notifyCollisionObjectDestroying hook of a running deleter.
ClaimCollisionObject(s, h) ==
  /\ ~aborted
  /\ pc \in {"idle", "hook"}
  /\ slot[s] = NoObject
  /\ mCollisionObjectManager' =
       IF mCollisionObjectManager = "none" THEN "unsharable"
       ELSE mCollisionObjectManager
  /\ IF mCollisionObjectManager' = "sharable"
     THEN SharableClaim(s, h) ELSE UnsharableClaim(s, h)
  /\ UNCHANGED <<ndebug, deleting, pc, queryVars>>

\* A backend detector installs the sharable manager when it is constructed.
InstallSharableManager ==
  /\ ~aborted
  /\ pc = "idle"
  /\ mCollisionObjectManager = "none"
  /\ mCollisionObjectManager' = "sharable"
  /\ UNCHANGED <<ndebug, aborted, frameOf, useCount, objState, events,
                 mCollisionObjectMap, slot, deleting, pc, last, queryVars>>

\* Mutant: the manager's destructor checks nothing.
DestroyManagerNoAssert ==
  /\ ~aborted
  /\ pc = "idle"
  /\ mCollisionObjectManager = "sharable"
  /\ pc' = "destroyed"
  /\ mCollisionObjectMap' = [h \in ShapeFrames |-> NoObject]
  /\ UNCHANGED <<ndebug, aborted, mCollisionObjectManager, frameOf, useCount,
                 objState, events, slot, deleting, last, queryVars>>

\* ~ManagerForSharableCollisionObjects: assert(mCollisionObjectMap.empty()),
\* then the map goes with the manager. Nothing is modelled after it.
DestroyManager ==
  /\ ~aborted
  /\ pc = "idle"
  /\ mCollisionObjectManager = "sharable"
  /\ pc' = "destroyed"
  /\ IF (\E h \in ShapeFrames : mCollisionObjectMap[h] # NoObject) /\ ~ndebug
     THEN aborted' = TRUE /\ UNCHANGED mCollisionObjectMap
     ELSE /\ mCollisionObjectMap' = [h \in ShapeFrames |-> NoObject]
          /\ UNCHANGED aborted
  /\ UNCHANGED <<ndebug, mCollisionObjectManager, frameOf, useCount,
                 objState, events, slot, deleting, last, queryVars>>

\* Mutant: the deleter runs without notifying the detector.
ReleaseWithoutNotify(s) ==
  /\ ~aborted
  /\ pc = "idle"
  /\ slot[s] # NoObject
  /\ slot' = [slot EXCEPT ![s] = NoObject]
  /\ useCount' = [useCount EXCEPT ![slot[s]] = @ - 1]
  /\ IF useCount[slot[s]] = 1
     THEN /\ deleting' = slot[s]
          /\ pc' = "hook"
          /\ objState' = [objState EXCEPT ![slot[s]] = "destroying"]
          /\ UNCHANGED events
     ELSE UNCHANGED <<deleting, pc, objState, events>>
  /\ last' = Released(slot[s])
  /\ UNCHANGED <<ndebug, aborted, mCollisionObjectManager, frameOf,
                 mCollisionObjectMap, queryVars>>

\* Mutant: every release runs the deleter, whether or not owners remain.
ReleaseAlwaysDestroys(s) ==
  /\ ~aborted
  /\ pc = "idle"
  /\ slot[s] # NoObject
  /\ slot' = [slot EXCEPT ![s] = NoObject]
  /\ useCount' = [useCount EXCEPT ![slot[s]] = @ - 1]
  /\ deleting' = slot[s]
  /\ pc' = "hook"
  /\ objState' = [objState EXCEPT ![slot[s]] = "destroying"]
  /\ events' = [events EXCEPT ![slot[s]] = Append(@, "notify")]
  /\ last' = Released(slot[s])
  /\ UNCHANGED <<ndebug, aborted, mCollisionObjectManager, frameOf,
                 mCollisionObjectMap, queryVars>>

\* shared_ptr::reset() on reference s. Dropping the last owner enters the
\* deleter, whose first statement calls notifyCollisionObjectDestroying.
Release(s) ==
  /\ ~aborted
  /\ pc = "idle"
  /\ slot[s] # NoObject
  /\ slot' = [slot EXCEPT ![s] = NoObject]
  /\ useCount' = [useCount EXCEPT ![slot[s]] = @ - 1]
  /\ IF useCount[slot[s]] = 1
     THEN /\ deleting' = slot[s]
          /\ pc' = "hook"
          /\ objState' = [objState EXCEPT ![slot[s]] = "destroying"]
          /\ events' = [events EXCEPT ![slot[s]] = Append(@, "notify")]
     ELSE UNCHANGED <<deleting, pc, objState, events>>
  /\ last' = Released(slot[s])
  /\ UNCHANGED <<ndebug, aborted, mCollisionObjectManager, frameOf,
                 mCollisionObjectMap, queryVars>>

\* Mutant: the shared deleter leaves the map entry in place.
SharableDeleterNoErase ==
  /\ ~aborted
  /\ pc = "hook"
  /\ mCollisionObjectManager = "sharable"
  /\ events' = [events EXCEPT ![deleting] = Append(@, "erase")]
  /\ pc' = "delete"
  /\ UNCHANGED <<ndebug, aborted, mCollisionObjectManager, frameOf, useCount,
                 objState, slot, deleting, last, queryVars, mCollisionObjectMap>>

\* Mutant: the shared deleter clears the whole map.
SharableDeleterEraseAll ==
  /\ ~aborted
  /\ pc = "hook"
  /\ mCollisionObjectManager = "sharable"
  /\ mCollisionObjectMap' = [h \in ShapeFrames |-> NoObject]
  /\ events' = [events EXCEPT ![deleting] = Append(@, "erase")]
  /\ pc' = "delete"
  /\ UNCHANGED <<ndebug, aborted, mCollisionObjectManager, frameOf, useCount,
                 objState, slot, deleting, last, queryVars>>

\* Mutant: the shared deleter erases the entry inserted last, as an iterator
\* kept from before the hook might.
SharableDeleterEraseLatest ==
  /\ ~aborted
  /\ pc = "hook"
  /\ mCollisionObjectManager = "sharable"
  /\ mCollisionObjectMap' =
       [mCollisionObjectMap EXCEPT ![frameOf[NumObjects]] = NoObject]
  /\ events' = [events EXCEPT ![deleting] = Append(@, "erase")]
  /\ pc' = "delete"
  /\ UNCHANGED <<ndebug, aborted, mCollisionObjectManager, frameOf, useCount,
                 objState, slot, deleting, last, queryVars>>

\* ManagerForSharableCollisionObjects::CollisionObjectDeleter: the hook has
\* returned; mCollisionObjectMap.erase(object->getShapeFrame())
SharableDeleterErase ==
  /\ ~aborted
  /\ pc = "hook"
  /\ mCollisionObjectManager = "sharable"
  /\ mCollisionObjectMap' = [mCollisionObjectMap EXCEPT ![frameOf[deleting]] = NoObject]
  /\ events' = [events EXCEPT ![deleting] = Append(@, "erase")]
  /\ pc' = "delete"
  /\ UNCHANGED <<ndebug, aborted, mCollisionObjectManager, frameOf, useCount,
                 objState, slot, deleting, last, queryVars>>

\* delete object (last statement of either deleter)
DeleteObject ==
  /\ objState' = [objState EXCEPT ![deleting] = "deleted"]
  /\ events' = [events EXCEPT ![deleting] = Append(@, "delete")]
  /\ deleting' = NoObject
  /\ pc' = "idle"

SharableDeleterDelete ==
  /\ ~aborted
  /\ pc = "delete"
  /\ DeleteObject
  /\ UNCHANGED <<ndebug, aborted, mCollisionObjectManager, frameOf, useCount,
                 mCollisionObjectMap, slot, last, queryVars>>

\* ManagerForUnsharableCollisionObjects::CollisionObjectDeleter: the hook has
\* returned; delete object
UnsharableDeleterDelete ==
  /\ ~aborted
  /\ pc = "hook"
  /\ mCollisionObjectManager = "unsharable"
  /\ DeleteObject
  /\ UNCHANGED <<ndebug, aborted, mCollisionObjectManager, frameOf, useCount,
                 mCollisionObjectMap, slot, last, queryVars>>

\* ------------------------------------------------- queries: bounds and inputs
NumBodies == 3       \* collision objects of the scene the queries run on
MaxContactsOpt == 1  \* largest maxNumContacts a caller passes
MaxResultLen == 2    \* contacts the scratch result may accumulate in a run

Bodies == 1..NumBodies

\* CollisionOption::collisionFilter: nullptr, or a pure predicate over pairs.
\* RejectBody(b) is the filter that rejects every pair that involves body b.
NoFilter == [rejects |-> 0]
RejectBody(b) == [rejects |-> b]
Filters == {NoFilter} \cup {RejectBody(b) : b \in Bodies}
FilterAllows(f, a, b) == f = NoFilter \/ (f.rejects # a /\ f.rejects # b)

\* CollisionOption(enableContact, binaryCheck, maxNumContacts, collisionFilter)
CollisionOption(ec, bc, mx, f) ==
  [enableContact |-> ec, binaryCheck |-> bc, maxNumContacts |-> mx,
   collisionFilter |-> f]
Options ==
  {CollisionOption(ec, bc, mx, f) :
     ec \in BOOLEAN, bc \in BOOLEAN, mx \in 0..MaxContactsOpt, f \in Filters}

\* A group holds the first k bodies in insertion order; the two-group query is
\* asked of a group and the group of the remaining bodies (empty for k = all).
Groups == {1..k : k \in 1..NumBodies}

\* The scene: which pairs of bodies geometrically overlap (narrow phase).
Overlapping(a, b) == a # b /\ a + b > NumBodies

\* Pairs of a query in the canonical enumeration order: within one group every
\* earlier member against every later one; across two groups one of each.
CandidatePairs(arity, g1, g2) ==
  IF arity = 1
  THEN {<<a, b>> \in g1 \X g1 : a < b}
  ELSE {<<a, b>> \in g1 \X g2 : a # b}

PairLess(p, q) == p[1] < q[1] \/ (p[1] = q[1] /\ p[2] < q[2])

RECURSIVE PairSeq(_)
PairSeq(S) ==
  IF S = {} THEN <<>>
  ELSE LET m == CHOOSE p \in S : \A q \in S \ {p} : PairLess(p, q)
       IN <<m>> \o PairSeq(S \ {m})

\* How many matches the core query records before it stops.
ContactCap(option, n) ==
  IF option.binaryCheck THEN 1
  ELSE IF option.maxNumContacts = 0 THEN n ELSE option.maxNumContacts

Min(a, b) == IF a < b THEN a ELSE b

\* The core collide(group[, group2], option, result) of a backend: the contact
\* records it appends to result, each named by its pair of bodies.
CoreContacts(arity, g1, g2, option) ==
  LET hits == {p \in CandidatePairs(arity, g1, g2) :
                 /\ Overlapping(p[1], p[2])
                 /\ FilterAllows(option.collisionFilter, p[1], p[2])}
      all == PairSeq(hits)
      kept == SubSeq(all, 1, Min(Len(all), ContactCap(option, Len(all))))
  IN kept

\* ... and its return value: whether any match occurred.
CoreReturn(arity, g1, g2, option) == CoreContacts(arity, g1, g2, option) # <<>>

\* Mutant: the scratch option is made with the first two arguments swapped.
GetDummyCollisionOptionSwapped ==
  IF mDummyCollisionOption = NoOption
  THEN CollisionOption(TRUE, FALSE, 1, NoFilter)
  ELSE mDummyCollisionOption

\* CollisionDetector::getDummyCollisionOption
GetDummyCollisionOption ==
  IF mDummyCollisionOption = NoOption
  THEN CollisionOption(FALSE, TRUE, 1, NoFilter)
  ELSE mDummyCollisionOption

\* Mutant: a new scratch result is made on every use.
GetDummyCollisionResultFresh == <<>>

\* CollisionDetector::getDummyCollisionResult
GetDummyCollisionResult ==
  IF mDummyCollisionResult = NoResult THEN <<>>
  ELSE mDummyCollisionResult.contacts

\* Mutant: the caller's filter is never copied into the scratch option.
ScratchOptionWithoutFilter(option) == GetDummyCollisionOption

\* Mutant: the caller's filter is copied only when it is not null.
ScratchOptionIfFilter(option) ==
  IF option.collisionFilter = NoFilter THEN GetDummyCollisionOption
  ELSE [GetDummyCollisionOption EXCEPT
          !.collisionFilter = option.collisionFilter]

\* collisionOption.collisionFilter = option.collisionFilter
ScratchOptionFor(option) ==
  [GetDummyCollisionOption EXCEPT !.collisionFilter = option.collisionFilter]

\* The three assert()s on the scratch option
ScratchAssertsHold(o) ==
  /\ FALSE = o.enableContact
  /\ TRUE = o.binaryCheck
  /\ 1 = o.maxNumContacts

\* Mutant: the answer is read off the scratch result, which is never cleared.
CallCoreResultNonEmpty(arity, g1, g2, option, coreOption, passed) ==
  LET added == CoreContacts(arity, g1, g2, coreOption)
  IN /\ Len(GetDummyCollisionResult) + Len(added) <= MaxResultLen
     /\ mDummyCollisionResult' = [contacts |-> GetDummyCollisionResult \o added]
     /\ call' = [made |-> TRUE, arity |-> arity, group1 |-> g1, group2 |-> g2,
                 option |-> option, before |-> mDummyCollisionOption,
                 coreCalled |-> TRUE,
                 coreOption |-> coreOption, passed |-> passed,
                 sink |-> "mDummyCollisionResult", added |-> added,
                 ret |-> ((GetDummyCollisionResult \o added) # <<>>)]
     /\ UNCHANGED aborted

\* return collide(group[, group2], coreOption, getDummyCollisionResult())
CallCore(arity, g1, g2, option, coreOption, passed) ==
  LET added == CoreContacts(arity, g1, g2, coreOption)
  IN /\ Len(GetDummyCollisionResult) + Len(added) <= MaxResultLen
     /\ mDummyCollisionResult' = [contacts |-> GetDummyCollisionResult \o added]
     /\ call' = [made |-> TRUE, arity |-> arity, group1 |-> g1, group2 |-> g2,
                 option |-> option, before |-> mDummyCollisionOption,
                 coreCalled |-> TRUE,
                 coreOption |-> coreOption, passed |-> passed,
                 sink |-> "mDummyCollisionResult", added |-> added,
                 ret |-> (added # <<>>)]
     /\ UNCHANGED aborted

\* Mutant: the caller's option is forwarded to the core query in every case.
ConvenienceCollideForwarding(arity, g1, g2, option) ==
  /\ CallCore(arity, g1, g2, option, option, "option")
  /\ UNCHANGED mDummyCollisionOption

\* The body shared by the two convenience overloads
\* collide(group, option) and collide(group1, group2, option).
ConvenienceCollide(arity, g1, g2, option) ==
  IF option.binaryCheck
  THEN /\ CallCore(arity, g1, g2, option, option, "option")
       /\ UNCHANGED mDummyCollisionOption
  ELSE /\ mDummyCollisionOption' = ScratchOptionFor(option)
       /\ IF ScratchAssertsHold(mDummyCollisionOption') \/ ndebug
          THEN CallCore(arity, g1, g2, option, mDummyCollisionOption',
                        "mDummyCollisionOption")
          ELSE /\ aborted' = TRUE
               /\ call' = [made |-> TRUE, arity |-> arity, group1 |-> g1,
                           group2 |-> g2, before |-> mDummyCollisionOption,
                           option |-> option, coreCalled |-> FALSE]
               /\ UNCHANGED mDummyCollisionResult

\* bool CollisionDetector::collide(CollisionGroup*, const CollisionOption&)
Collide1(group, option) ==
  /\ ~aborted
  /\ call = NoCall
  /\ ConvenienceCollide(1, group, {}, option)
  /\ UNCHANGED <<ndebug, objVars>>

\* bool CollisionDetector::collide(CollisionGroup*, CollisionGroup*,
\*                                 const CollisionOption&)
Collide2(group1, group2, option) ==
  /\ ~aborted
  /\ call = NoCall
  /\ ConvenienceCollide(2, group1, group2, option)
  /\ UNCHANGED <<ndebug, objVars>>

\* The convenience overload returns: its activation (arguments, the option it
\* handed to the core query, the value returned) is gone; the scratch option
\* and the scratch result stay with the detector.
ReturnToCaller ==
  /\ ~aborted
  /\ call # NoCall
  /\ call' = NoCall
  /\ UNCHANGED <<ndebug, aborted, objVars, mDummyCollisionOption,
                 mDummyCollisionResult>>

Init ==
  /\ ndebug \in BOOLEAN
  /\ aborted = FALSE
  /\ mCollisionObjectManager = "none"
  /\ frameOf = <<>>
  /\ useCount = <<>>
  /\ objState = <<>>
  /\ events = <<>>
  /\ mCollisionObjectMap = [h \in ShapeFrames |-> NoObject]
  /\ slot = [s \in Slots |-> NoObject]
  /\ deleting = NoObject
  /\ pc = "idle"
  /\ last = NoLast
  /\ mDummyCollisionOption = NoOption
  /\ mDummyCollisionResult = NoResult
  /\ call = NoCall

Next ==
  \/ InstallSharableManager
  \/ \E s \in Slots, h \in ShapeFrames : ClaimCollisionObject(s, h)
  \/ \E s \in Slots : Release(s)
  \/ SharableDeleterErase
  \/ SharableDeleterDelete
  \/ UnsharableDeleterDelete
  \/ DestroyManager

Spec == Init /\ [][Next]_vars

NextQuery ==
  \/ \E g \in Groups, option \in Options : Collide1(g, option)
  \/ \E g \in Groups, option \in Options : Collide2(g, Bodies \ g, option)
  \/ ReturnToCaller

SpecQuery == Init /\ [][NextQuery]_vars

\* ------------------------------------------------------------------ helpers
Sharable == mCollisionObjectManager = "sharable"
Unsharable == mCollisionObjectManager = "unsharable"

\* The objects constructed for handle h that still have an owner
LiveFor(h) == {o \in Created : frameOf[o] = h /\ useCount[o] > 0}

\* The steps of a complete teardown under the manager in use
FullTeardown ==
  IF Sharable THEN <<"notify", "erase", "delete">> ELSE <<"notify", "delete">>

\* The option the scratch branch hands to the core query for a caller's option
ForcedBinary(option) ==
  CollisionOption(FALSE, TRUE, 1, option.collisionFilter)

CoreCalled == call.made /\ call.coreCalled

\* -------------------------------------------------------------------- C1
\* C1: under the shared policy, a claimCollisionObject(h) made while the
\* object for h still has an owner returns that same object: no object is
\* constructed and its owner count goes up by one.
C1_CacheIdentity ==
  [][\A s \in Slots, h \in ShapeFrames, o \in Created :
       (Sharable /\ ClaimCollisionObject(s, h) /\ o \in LiveFor(h))
         => /\ last' = Claimed(o)
            /\ slot'[s] = o
            /\ frameOf' = frameOf
            /\ useCount' = [useCount EXCEPT ![o] = @ + 1]]_vars

\* Two references own the object the latest claim returned.
C1_Witness ==
  /\ Sharable
  /\ last.op = "claim"
  /\ last.obj \in Created
  /\ useCount[last.obj] >= 2
  /\ Cardinality({s \in Slots : slot[s] = last.obj}) >= 2

\* -------------------------------------------------------------------- C2
\* C2: under the exclusive policy every claimCollisionObject(h) constructs a
\* new object with a single owner, distinct from every object made before, so
\* no two references ever own the same object, and the map stays empty.
C2_CacheNonIdentity ==
  [][\A s \in Slots, h \in ShapeFrames :
       (ClaimCollisionObject(s, h) /\ mCollisionObjectManager' = "unsharable")
         => /\ frameOf' = Append(frameOf, h)
            /\ last' = Claimed(NumObjects + 1)
            /\ useCount' = Append(useCount, 1)
            /\ \A s1, s2 \in Slots :
                 (s1 # s2 /\ slot'[s1] # NoObject) => slot'[s1] # slot'[s2]
            /\ \A f \in ShapeFrames : mCollisionObjectMap'[f] = NoObject]_vars

\* Two live objects exist for one handle.
C2_Witness ==
  /\ Unsharable
  /\ \E s1, s2 \in Slots :
       /\ slot[s1] # NoObject /\ slot[s2] # NoObject
       /\ slot[s1] # slot[s2]
       /\ frameOf[slot[s1]] = frameOf[slot[s2]]

\* -------------------------------------------------------------------- C3
\* C3: under the shared policy, once the teardown of the object for h has
\* completed the map has no entry for h that refers to it, and the next
\* claimCollisionObject(h) constructs a new object and stores a fresh entry
\* for it, as a first-ever request does; a deleted object is never returned.
C3_NoDanglingEntries ==
  /\ [](Sharable =>
          /\ \A o \in Created :
               objState[o] = "deleted" => mCollisionObjectMap[frameOf[o]] # o
          /\ \A h \in ShapeFrames :
               (pc = "idle" /\ LiveFor(h) = {})
                 => mCollisionObjectMap[h] = NoObject)
  /\ [][\A s \in Slots, h \in ShapeFrames :
          (Sharable /\ ClaimCollisionObject(s, h)
             /\ \A o \in Created : frameOf[o] = h => objState[o] = "deleted")
            => /\ frameOf' = Append(frameOf, h)
               /\ useCount' = Append(useCount, 1)
               /\ objState' = Append(objState, "alive")
               /\ last' = Claimed(NumObjects + 1)
               /\ slot'[s] = NumObjects + 1
               /\ mCollisionObjectMap' =
                    [mCollisionObjectMap EXCEPT ![h] = NumObjects + 1]]_vars

\* A handle whose first object was deleted has been claimed again.
C3_Witness ==
  /\ Sharable
  /\ \E o1, o2 \in Created :
       /\ frameOf[o1] = frameOf[o2]
       /\ objState[o1] = "deleted"
       /\ objState[o2] = "alive"
       /\ mCollisionObjectMap[frameOf[o2]] = o2
       /\ last = Claimed(o2)

\* -------------------------------------------------------------------- C8
\* C8: under both policies an object's teardown starts only when its last
\* owner is gone; the steps run in the order notify, (erase, shared policy
\* only,) delete, each once; an object that still has owners has had none of
\* them.
C8_DestructionOrder ==
  \A o \in Created :
    /\ Len(events[o]) <= Len(FullTeardown)
    /\ events[o] = SubSeq(FullTeardown, 1, Len(events[o]))
    /\ events[o] # <<>> => useCount[o] = 0
    /\ useCount[o] > 0 => objState[o] = "alive"
    /\ objState[o] = "alive" <=> events[o] = <<>>
    /\ objState[o] = "deleted" <=> events[o] = FullTeardown
    /\ objState[o] = "destroying" <=> o = deleting

\* An object was torn down completely under the shared policy.
C8_Witness ==
  /\ Sharable
  /\ \E o \in Created :
       objState[o] = "deleted" /\ events[o] = <<"notify", "erase", "delete">>

\* -------------------------------------------------------------------- C9
\* C9: releasing a reference to an object that has another owner destroys
\* nothing: the object stays alive with one owner fewer, no notification is
\* sent, no deleter starts and the map is unchanged.
C9_TeardownSafety ==
  [][\A s \in Slots :
       (Release(s) /\ useCount[slot[s]] > 1)
         => /\ objState' = objState
            /\ events' = events
            /\ mCollisionObjectMap' = mCollisionObjectMap
            /\ deleting' = NoObject /\ pc' = "idle"
            /\ useCount'[slot[s]] = useCount[slot[s]] - 1
            /\ objState'[slot[s]] = "alive"]_vars

\* A reference was released and the object still has an owner.
C9_Witness ==
  /\ last.op = "release"
  /\ useCount[last.obj] >= 1
  /\ objState[last.obj] = "alive"
  /\ \E s \in Slots : slot[s] = last.obj

\* -------------------------------------------------------------------- C4
\* C4: a convenience collide with binaryCheck = false returns true exactly
\* when the core query, run with any non-binary option that has the same
\* filter, records at least one contact.
C4_BinaryFullEquivalence ==
  (CoreCalled /\ ~call.option.binaryCheck) =>
    \A full \in Options :
      (~full.binaryCheck
         /\ full.collisionFilter = call.option.collisionFilter)
        => (call.ret <=>
              CoreContacts(call.arity, call.group1, call.group2, full) # <<>>)

\* A non-binary call with a filter set found a contact.
C4_Witness ==
  /\ CoreCalled
  /\ ~call.option.binaryCheck
  /\ call.option.collisionFilter # NoFilter
  /\ call.before # NoOption
  /\ call.before.collisionFilter # call.option.collisionFilter
  /\ call.ret

\* -------------------------------------------------------------------- C5
\* C5 as stated: collide(group, option) with binaryCheck = false hands the
\* caller's option, unchanged, to the core query.
C5_OptionUnchanged ==
  (CoreCalled /\ call.arity = 1 /\ ~call.option.binaryCheck)
    => call.coreOption = call.option

\* C5 as amended: collide(group, option) with binaryCheck = false hands the
\* detector's scratch option to the core query: enableContact = false,
\* binaryCheck = true, maxNumContacts = 1, and the caller's filter; of the
\* caller's option only the filter is kept.
C5_ScratchOptionDerived ==
  (CoreCalled /\ call.arity = 1 /\ ~call.option.binaryCheck)
    => /\ call.coreOption = ForcedBinary(call.option)
       /\ call.coreOption # call.option
       /\ call.passed = "mDummyCollisionOption"

\* A caller asked one group for full contact information.
C5_Witness ==
  /\ CoreCalled
  /\ call.arity = 1
  /\ ~call.option.binaryCheck
  /\ call.option.enableContact
  /\ call.option.maxNumContacts = 0
  /\ call.ret

\* -------------------------------------------------------------------- C6
\* C6: both convenience overloads run the core query on the scratch result;
\* with binaryCheck = true on the caller's option itself, otherwise on the
\* detector's scratch option (false, true, 1) carrying the caller's filter;
\* and they return what the core query returns.
C6_Dispatch ==
  CoreCalled =>
    /\ call.arity \in {1, 2}
    /\ call.sink = "mDummyCollisionResult"
    /\ mDummyCollisionResult # NoResult
    /\ call.ret = CoreReturn(call.arity, call.group1, call.group2,
                             call.coreOption)
    /\ IF call.option.binaryCheck
       THEN /\ call.passed = "option"
            /\ call.coreOption = call.option
            /\ mDummyCollisionOption = call.before
       ELSE /\ call.passed = "mDummyCollisionOption"
            /\ call.coreOption = ForcedBinary(call.option)
            /\ mDummyCollisionOption = call.coreOption

\* The two-group overload forwarded a binary option while a scratch option
\* existed.
C6_Witness ==
  /\ CoreCalled
  /\ call.arity = 2
  /\ call.option.binaryCheck
  /\ call.before # NoOption
  /\ call.ret

\* -------------------------------------------------------------------- C7
\* C7: the filter the core query sees is the filter of the call's own option,
\* whatever earlier calls left in the scratch option, and no contact the
\* call records names a pair that filter rejects.
C7_FilterPropagation ==
  CoreCalled =>
    /\ call.coreOption.collisionFilter = call.option.collisionFilter
    /\ \A i \in 1..Len(call.added) :
         FilterAllows(call.option.collisionFilter,
                      call.added[i][1], call.added[i][2])

\* A null filter followed a filter in the scratch option.
C7_Witness ==
  /\ CoreCalled
  /\ ~call.option.binaryCheck
  /\ call.option.collisionFilter = NoFilter
  /\ call.before # NoOption
  /\ call.before.collisionFilter # NoFilter
  /\ call.ret

\* ------------------------------------------------------------------- C10
\* C10: every option that reaches the core query with binaryCheck = true has
\* enableContact = false and maxNumContacts = 1.
C10_BinaryOptionValid ==
  (CoreCalled /\ call.coreOption.binaryCheck)
    => /\ ~call.coreOption.enableContact
       /\ call.coreOption.maxNumContacts = 1

\* ------------------------------------------------------------------- C11
\* C11: claimCollisionObject creates the manager only when the detector has
\* none, and then the exclusive one; a manager that exists, whether created
\* by an earlier claim or installed as shared, is never replaced by a claim.
C11_ManagerKept ==
  [][/\ mCollisionObjectManager # "none"
          => mCollisionObjectManager' = mCollisionObjectManager
     /\ \A s \in Slots, h \in ShapeFrames :
          ClaimCollisionObject(s, h) =>
            mCollisionObjectManager' =
              IF mCollisionObjectManager = "none" THEN "unsharable"
              ELSE mCollisionObjectManager]_vars

\* A claim went to a shared manager that had already issued an object.
C11_Witness ==
  /\ Sharable
  /\ NumObjects >= 2
  /\ last.op = "claim"
  /\ last.obj = NumObjects

\* ------------------------------------------------------------------- C12
\* C12: when the shared manager is destroyed, its map is empty exactly when
\* no owning reference to an object it issued is left; the destructor's
\* assertion holds in that case and fails otherwise (an error state where
\* assertions are compiled in).
C12_ManagerTeardown ==
  [][(pc = "idle" /\ pc' = "destroyed") =>
       LET owned == \E s \in Slots : slot[s] # NoObject
           empty == \A h \in ShapeFrames : mCollisionObjectMap[h] = NoObject
       IN /\ Sharable
          /\ empty <=> ~owned
          /\ aborted' <=> (~empty /\ ~ndebug)]_vars

\* The manager was destroyed while a reference was still held.
C12_Witness ==
  /\ pc = "destroyed"
  /\ aborted
  /\ \E s \in Slots : slot[s] # NoObject

\* ------------------------------------------------------------------- C13
\* C13: under the shared policy a claim for h returns an object made for h,
\* so claims for distinct handles never return the same object; and a claim,
\* a release or a teardown step for one handle leaves the map entry, the
\* owner counts and the liveness of the objects of every other handle as
\* they were.
C13_HandleIsKey ==
  [][\A h2 \in ShapeFrames :
       LET Untouched ==
             /\ mCollisionObjectMap'[h2] = mCollisionObjectMap[h2]
             /\ \A o \in Created :
                  frameOf[o] = h2 =>
                    /\ useCount'[o] = useCount[o]
                    /\ objState'[o] = objState[o]
       IN /\ \A s \in Slots, h \in ShapeFrames :
               (Sharable /\ ClaimCollisionObject(s, h)) =>
                 /\ (~aborted' /\ last'.obj # NoObject)
                      => frameOf'[last'.obj] = h
                 /\ h # h2 => Untouched
          /\ \A s \in Slots :
               (Sharable /\ Release(s) /\ frameOf[slot[s]] # h2) => Untouched
          /\ (Sharable /\ (SharableDeleterErase \/ SharableDeleterDelete)
                /\ frameOf[deleting] # h2) => Untouched]_vars

\* The object of one handle was torn down while another handle's lives on.
C13_Witness ==
  /\ Sharable
  /\ \E o1, o2 \in Created :
       /\ frameOf[o1] # frameOf[o2]
       /\ objState[o1] = "deleted"
       /\ objState[o2] = "alive"
       /\ mCollisionObjectMap[frameOf[o2]] = o2
       /\ mCollisionObjectMap[frameOf[o1]] = NoObject
       /\ last = Released(o1)

\* ------------------------------------------------------------------- C14
\* C14: between operations under the shared policy the map has an entry for
\* h exactly when some reference owns an object for h; the entry refers to
\* that live object, which every such reference owns; and at most one object
\* that is not deleted exists per handle.
C14_MapInvariant ==
  (Sharable /\ pc = "idle") =>
    \A h \in ShapeFrames :
      LET owners == {s \in Slots : slot[s] # NoObject /\ frameOf[slot[s]] = h}
          entry == mCollisionObjectMap[h]
      IN /\ entry # NoObject <=> owners # {}
         /\ entry # NoObject =>
              /\ frameOf[entry] = h
              /\ objState[entry] = "alive"
              /\ useCount[entry] > 0
              /\ \A s \in owners : slot[s] = entry
         /\ Cardinality({o \in Created :
                           frameOf[o] = h /\ objState[o] # "deleted"}) <= 1

\* One handle's object is shared by two references, another handle's object
\* has been deleted and its entry is gone.
C14_Witness ==
  /\ Sharable
  /\ pc = "idle"
  /\ \E h1, h2 \in ShapeFrames :
       /\ mCollisionObjectMap[h1] # NoObject
       /\ useCount[mCollisionObjectMap[h1]] >= 2
       /\ mCollisionObjectMap[h2] = NoObject
       /\ \E o \in Created : frameOf[o] = h2 /\ objState[o] = "deleted"

\* ------------------------------------------------------------------- C15
\* C15: no claimCollisionObject under the shared policy finds a dead weak
\* reference, a claim made from inside the notify hook of the deleter of the
\* same handle's object included: the assertion in the lookup never fails
\* and a null reference is never returned.
C15_NoDeadLookup ==
  /\ ~(aborted /\ pc = "hook")
  /\ last # Claimed(NoObject)

\* ------------------------------------------------------------------- C16
\* C16: when an object for another handle h2 is claimed and entered in the
\* map while the object for h is in its deleter, the erase removes the entry
\* for h only: afterwards h has no entry, h2's entry refers to its live
\* object, and every other entry is as it was.
C16_TeardownToleratesInsertion ==
  /\ []((Sharable /\ pc = "delete") =>
          /\ mCollisionObjectMap[frameOf[deleting]] = NoObject
          /\ \A h \in ShapeFrames \ {frameOf[deleting]} :
               LET owners == {s \in Slots :
                                slot[s] # NoObject /\ frameOf[slot[s]] = h}
                   entry == mCollisionObjectMap[h]
               IN /\ entry # NoObject <=> owners # {}
                  /\ entry # NoObject =>
                       /\ frameOf[entry] = h
                       /\ objState[entry] = "alive"
                       /\ \A s \in owners : slot[s] = entry)
  /\ [][(pc = "hook" /\ pc' = "delete") =>
          \A h \in ShapeFrames \ {frameOf[deleting]} :
            mCollisionObjectMap'[h] = mCollisionObjectMap[h]]_vars

\* The erase has run after an object for another handle was constructed from
\* inside the hook.
C16_Witness ==
  /\ Sharable
  /\ pc = "delete"
  /\ last.op = "claim"
  /\ last.obj # NoObject
  /\ last.obj > deleting
  /\ frameOf[last.obj] # frameOf[deleting]
  /\ useCount[last.obj] = 1
  /\ mCollisionObjectMap[frameOf[last.obj]] = last.obj
  /\ mCollisionObjectMap[frameOf[deleting]] = NoObject

\* ------------------------------------------------------------------- C17
\* C17: an object's owner count is the number of references handed out by
\* claimCollisionObject and not yet released, the map entry not counted; the
\* deleter of an object runs with that count at zero while the map still
\* indexes the object.
C17_MapIsNoOwner ==
  /\ \A o \in Created :
       useCount[o] = Cardinality({s \in Slots : slot[s] = o})
  /\ (Sharable /\ pc = "hook") =>
       /\ mCollisionObjectMap[frameOf[deleting]] = deleting
       /\ useCount[deleting] = 0
       /\ objState[deleting] = "destroying"

\* The last reference is gone and the map still indexes the object.
C17_Witness ==
  /\ Sharable
  /\ pc = "hook"
  /\ last = Released(deleting)
  /\ mCollisionObjectMap[frameOf[deleting]] = deleting
  /\ \A s \in Slots : slot[s] # deleting

\* ------------------------------------------------------------------- C18
\* C18: the scratch option and the scratch result are made on first use and
\* kept: once made they are never unset or made anew (the option changes in
\* its filter only, the result only grows); the scratch option always has
\* enableContact = false, binaryCheck = true, maxNumContacts = 1, so the
\* three assertions never fail.
C18_ScratchState ==
  /\ [](/\ ~aborted
        /\ call.made => call.coreCalled
        /\ mDummyCollisionOption # NoOption =>
             /\ ScratchAssertsHold(mDummyCollisionOption)
             /\ mDummyCollisionResult # NoResult)
  /\ [][/\ mDummyCollisionOption # NoOption =>
             /\ mDummyCollisionOption' # NoOption
             /\ [mDummyCollisionOption' EXCEPT
                   !.collisionFilter = mDummyCollisionOption.collisionFilter]
                  = mDummyCollisionOption
        /\ mDummyCollisionResult # NoResult =>
             /\ mDummyCollisionResult' # NoResult
             /\ Len(mDummyCollisionResult'.contacts)
                  >= Len(mDummyCollisionResult.contacts)
             /\ SubSeq(mDummyCollisionResult'.contacts, 1,
                       Len(mDummyCollisionResult.contacts))
                  = mDummyCollisionResult.contacts
        /\ (call = NoCall /\ call' # NoCall) =>
             /\ mDummyCollisionResult' # NoResult
             /\ IF call'.option.binaryCheck
                THEN mDummyCollisionOption' = mDummyCollisionOption
                ELSE mDummyCollisionOption' # NoOption]_vars

\* A later non-binary call reused the scratch option and added to a scratch
\* result that already held a contact.
C18_Witness ==
  /\ CoreCalled
  /\ ~call.option.binaryCheck
  /\ call.before # NoOption
  /\ call.added # <<>>
  /\ Len(mDummyCollisionResult.contacts) > Len(call.added)

\* ------------------------------------------------------------------- C19
\* C19: the boolean a convenience collide returns is the one a newly made
\* detector returns for the same group(s) and option, whatever filter the
\* scratch option and whatever contacts the scratch result were left with.
C19_HistoryIndependence ==
  call.made =>
    /\ call.coreCalled
    /\ call.ret =
         CoreReturn(call.arity, call.group1, call.group2,
                    IF call.option.binaryCheck THEN call.option
                    ELSE [CollisionOption(FALSE, TRUE, 1, NoFilter) EXCEPT
                            !.collisionFilter = call.option.collisionFilter])

\* A call returned false on a detector whose scratch result held a contact
\* and whose scratch option held another filter.
C19_Witness ==
  /\ CoreCalled
  /\ ~call.ret
  /\ call.added = <<>>
  /\ call.before # NoOption
  /\ call.before.collisionFilter # call.option.collisionFilter
  /\ call.before.collisionFilter # NoFilter
  /\ mDummyCollisionResult.contacts # <<>>

====
